---- MODULE Spec2Model ----
(***************************************************************************)
(* LRU-K cache of src/LRU-K.cpp (class LRUK_Cache<KEY, VALUE>).            *)
(*                                                                         *)
(* A list node is a record [node, key_, value_, access_time_]: `node' is   *)
(* the identity of the std::list node (what an iterator points to), the    *)
(* other three are the fields of CacheEntry.  std::list keeps iterators    *)
(* valid across sort and splice, so a node keeps its identity when its     *)
(* list is reordered; emplace makes a node with a fresh identity.          *)
(* An iterator is a record [list, node]; node 0 is the list's end().       *)
(* The two unordered_maps hold, per key, the node their iterator names.    *)
(*                                                                         *)
(* steady_clock::now() never decreases; two calls may return the same      *)
(* time_point.  Every operator that records an access takes the clock      *)
(* advance `tick' (0 or 1) of its one call of now().                       *)
(***************************************************************************)
EXTENDS Integers, Sequences, FiniteSets, TLC

\* ---------------------------------------------------------------- bounds
MaxCap == 2
MaxK == 2
MaxTime == 2
NumValues == 2
NumKeys == 3
PromotionCap == 2
\* how far below zero the constructor's arguments go, and how long a window
\* may have grown for a call to be made, in the runs on a misconfigured cache
MaxDeficit == 1
MaxWindow == 3

\* VALUE() returned by get on a miss (line 203); the values put are 1..NumValues
DefaultValue == 0

Values == 1..NumValues
Keys == 1..NumKeys
\* enough keys to fill both regions of the largest cache and still put a new one
WideKeys == 1..(2 * MaxCap + 1)
AllKeys == Keys \cup WideKeys
\* the clock's last time_point in the runs that use WideKeys
WideMaxTime == MaxTime - 1
Ticks == {0, 1}

VARIABLES
    capacity_,      \* int capacity_
    k_,             \* int k_
    historyList_,   \* list<CacheEntry>, front first
    cacheList_,     \* list<CacheEntry>, front first
    history_map_,   \* key -> node of historyList_
    cache_map_,     \* key -> node of cacheList_
    clock,          \* the last time_point steady_clock::now() returned
    ub,             \* TRUE once a call has dereferenced an end() or dangling iterator
    result,         \* the last call: what it was, what it returned, what it did
    lastPut,        \* history: per key, the value of the latest put since the key was last absent
    accessCount,    \* history: per key, accesses recorded since its creation (stops at k_)
    promotedInLife, \* history: per key, whether it was promoted since its creation
    promotedInStay, \* history: per key, promotions since its creation or latest demotion
                    \* (stops at PromotionCap)
    hotAtClear,     \* history: the keys Hot held when clear was called, kept until the
                    \* call after the clear has returned
    pc              \* main's position: <<calls of main made, calls of the final check made>>

cacheVars == <<capacity_, k_, historyList_, cacheList_, history_map_, cache_map_, ub>>
historyVars == <<lastPut, accessCount, promotedInLife, promotedInStay, hotAtClear>>
vars == <<capacity_, k_, historyList_, cacheList_, history_map_, cache_map_,
          clock, ub, result, lastPut, accessCount, promotedInLife, promotedInStay,
          hotAtClear, pc>>

\* ------------------------------------------------------- sequences, maps
SeqRange(s) == {s[i] : i \in 1..Len(s)}

\* mutant of RemoveAt: erase(it, end()) written for erase(it)
RemoveFrom(s, i) == SubSeq(s, 1, i - 1)

\* std::list::erase(it), the element at position i
RemoveAt(s, i) == SubSeq(s, 1, i - 1) \o SubSeq(s, i + 1, Len(s))

\* unordered_map::erase(key)
MapErase(m, k) == [x \in (DOMAIN m) \ {k} |-> m[x]]

\* unordered_map::emplace(key, it): no effect when the key is already present
MapEmplace(m, k, n) ==
    IF k \in DOMAIN m THEN m ELSE [x \in (DOMAIN m) \cup {k} |-> IF x = k THEN n ELSE m[x]]

EmptyMap == [x \in {} |-> 0]

\* mutant of SizeLess: <= written for <
SizeLessOrEqual(size, i) == IF i < 0 THEN TRUE ELSE size <= i

\* size_t compared with an int: the int converts to size_t, so a negative int
\* is larger than every list or queue size
SizeLess(size, i) == IF i < 0 THEN TRUE ELSE size < i

\* mutant of SizeGreater: the window is let grow one beyond k_ before it is cut
SizeGreaterByTwo(size, i) == IF i < 0 THEN FALSE ELSE size > i + 1

SizeGreater(size, i) == IF i < 0 THEN FALSE ELSE size > i

\* mutant of SizeGreaterEq: > written for >=
SizeGreaterNotEq(size, i) == IF i < 0 THEN FALSE ELSE size > i

SizeGreaterEq(size, i) == IF i < 0 THEN FALSE ELSE size >= i

\* ------------------------------------------------------------ list nodes
CacheEntry(n, k, v) == [node |-> n, key_ |-> k, value_ |-> v, access_time_ |-> <<>>]

Nodes(list) == {list[i].node : i \in 1..Len(list)}

\* position of node n in list, 0 when the list holds no such node
IndexOf(list, n) ==
    IF n \in Nodes(list) THEN CHOOSE i \in 1..Len(list) : list[i].node = n ELSE 0

\* the node a new list element gets: the lowest identity no live node has
NewNode(self) ==
    LET used == Nodes(self.historyList_) \cup Nodes(self.cacheList_)
    IN CHOOSE n \in 1..(Cardinality(used) + 1) :
           n \notin used /\ \A m \in 1..(n - 1) : m \in used

CacheEnd == [list |-> "cacheList_", node |-> 0]
HistoryEnd == [list |-> "historyList_", node |-> 0]
CacheIt(n) == [list |-> "cacheList_", node |-> n]
HistoryIt(n) == [list |-> "historyList_", node |-> n]

\* the element an iterator points to (the iterator is not an end())
Deref(self, it) ==
    IF it.list = "cacheList_"
    THEN self.cacheList_[IndexOf(self.cacheList_, it.node)]
    ELSE self.historyList_[IndexOf(self.historyList_, it.node)]

\* it->... on an iterator that points to no element: undefined behaviour
Valid(self, it) ==
    IF it.list = "cacheList_"
    THEN IndexOf(self.cacheList_, it.node) # 0
    ELSE IndexOf(self.historyList_, it.node) # 0

\* steady_clock::now() with the clock advancing by tick
Now(self, tick) == self.clock + tick

\* access_time_.push(t) / access_time_.pop() / value_ = v on the element at position i
PushTime(list, i, t) == [list EXCEPT ![i].access_time_ = Append(@, t)]
\* mutant of PopTime: the newest time is dropped, not the oldest
PopNewest(list, i) ==
    [list EXCEPT ![i].access_time_ = SubSeq(@, 1, Len(@) - 1)]

PopTime(list, i) == [list EXCEPT ![i].access_time_ = Tail(@)]
SetValue(list, i, v) == [list EXCEPT ![i].value_ = v]

\* entry_it->value_ = v
Assign(self, it, v) ==
    IF it.list = "cacheList_"
    THEN [self EXCEPT !.cacheList_ = SetValue(@, IndexOf(@, it.node), v)]
    ELSE [self EXCEPT !.historyList_ = SetValue(@, IndexOf(@, it.node), v)]

\* ------------------------------------------------------------------ sort
\* mutant of compareByAccessTime: back() written for front()
compareByLatestAccess(a, b) == a.access_time_[Len(a.access_time_)] > b.access_time_[Len(b.access_time_)]

\* lines 52-55: a sorts before b when its oldest recorded time is the newer one
compareByAccessTime(a, b) == Head(a.access_time_) > Head(b.access_time_)

\* e placed in a sorted list before the first element it must precede
SortedInsert(sorted, e) ==
    LET before == {i \in 1..Len(sorted) : compareByAccessTime(e, sorted[i])}
        at == IF before = {} THEN Len(sorted) + 1
              ELSE CHOOSE i \in before : \A j \in before : i <= j
    IN SubSeq(sorted, 1, at - 1) \o <<e>> \o SubSeq(sorted, at, Len(sorted))

RECURSIVE SortFrom(_, _, _)
SortFrom(list, i, sorted) ==
    IF i > Len(list) THEN sorted
    ELSE SortFrom(list, i + 1, SortedInsert(sorted, list[i]))

\* mutant of ListSort: the sort left out
ListNotSorted(list) == list

\* std::list::sort(compareByAccessTime): stable, the nodes keep their identity
ListSort(list) == SortFrom(list, 1, <<>>)

\* ------------------------------------------------------- private methods
\* mutant of findVictimFromCache: cacheList_.begin() written for --cacheList_.end()
findVictimFromCacheFront(self) ==
    IF self.cacheList_ = <<>> THEN CacheEnd ELSE CacheIt(self.cacheList_[1].node)

\* lines 67-71: --cacheList_.end()
findVictimFromCache(self) ==
    IF self.cacheList_ = <<>> THEN CacheEnd
    ELSE CacheIt(self.cacheList_[Len(self.cacheList_)].node)

\* mutant of findVictimFromHistory: historyList_.begin() written for --historyList_.end()
findVictimFromHistoryFront(self) ==
    IF self.historyList_ = <<>> THEN HistoryEnd ELSE HistoryIt(self.historyList_[1].node)

\* lines 73-77: --historyList_.end()
findVictimFromHistory(self) ==
    IF self.historyList_ = <<>> THEN HistoryEnd
    ELSE HistoryIt(self.historyList_[Len(self.historyList_)].node)

\* lines 80-89: the first element of cacheList_ with key k, else end()
findCacheEntry(self, k) ==
    LET hits == {i \in 1..Len(self.cacheList_) : self.cacheList_[i].key_ = k}
    IN IF hits = {} THEN CacheEnd
       ELSE CacheIt(self.cacheList_[CHOOSE i \in hits : \A j \in hits : i <= j].node)

\* lines 92-112
getFromCacheList(self, k, tick) ==
    IF k \notin DOMAIN self.cache_map_
    THEN [self |-> self, ret |-> CacheEnd]
    ELSE LET it == CacheIt(self.cache_map_[k])
             i == IndexOf(self.cacheList_, it.node)
         IN IF i = 0
            THEN [self |-> [self EXCEPT !.ub = TRUE], ret |-> CacheEnd]
            ELSE LET pushed == [self EXCEPT !.cacheList_ = PushTime(@, i, Now(self, tick)),
                                            !.clock = Now(self, tick)]
                 IN IF SizeGreater(Len(pushed.cacheList_[i].access_time_), self.k_)
                    THEN LET sorted == [pushed EXCEPT
                                           !.cacheList_ = ListSort(PopTime(@, i))]
                             ret == findCacheEntry(sorted, k)
                         IN [self |-> [sorted EXCEPT !.cache_map_ =
                                          MapEmplace(MapErase(@, k), k, ret.node)],
                             ret |-> ret]
                    ELSE [self |-> pushed, ret |-> CacheEnd]

\* mutant of CopyEntry: the copy keeps key and times but not the value
CopyEntryWithoutValue(entry, n) == [entry EXCEPT !.node = n, !.value_ = DefaultValue]

\* emplace(pos, *it), lines 138, 152, 155: CacheEntry's copy constructor, in a new node
CopyEntry(entry, n) == [entry EXCEPT !.node = n]

\* mutant of Admit: lines 141-142 left out, the element stays in historyList_
AdmitKeepingHistory(self, k, ih) ==
    LET entry == self.historyList_[ih]
        a == [self EXCEPT !.cacheList_ = Append(@, CopyEntry(entry, NewNode(self)))]
        c == [a EXCEPT !.cacheList_ = ListSort(@)]
        ret == findCacheEntry(c, k)
    IN [self |-> [c EXCEPT !.cache_map_ = MapEmplace(@, k, ret.node)], ret |-> ret]

\* mutant of Admit: line 146 left out, cache_map_ never learns the key
AdmitUnindexed(self, k, ih) ==
    LET entry == self.historyList_[ih]
        a == [self EXCEPT !.cacheList_ = Append(@, CopyEntry(entry, NewNode(self)))]
        b == [a EXCEPT !.history_map_ = MapErase(@, entry.key_),
                       !.historyList_ = RemoveAt(@, ih)]
        c == [b EXCEPT !.cacheList_ = ListSort(@)]
    IN [self |-> c, ret |-> findCacheEntry(c, k)]

\* lines 136-147: cacheList_ has room
Admit(self, k, ih) ==
    LET entry == self.historyList_[ih]
        a == [self EXCEPT !.cacheList_ = Append(@, CopyEntry(entry, NewNode(self)))]
        b == [a EXCEPT !.history_map_ = MapErase(@, entry.key_),
                       !.historyList_ = RemoveAt(@, ih)]
        c == [b EXCEPT !.cacheList_ = ListSort(@)]
        ret == findCacheEntry(c, k)
    IN [self |-> [c EXCEPT !.cache_map_ = MapEmplace(@, k, ret.node)], ret |-> ret]

\* mutant of AdmitAndDemote: emplace_back written for emplace_front at line 155
AdmitAndDemoteToBack(self, k, ih) ==
    LET entry == self.historyList_[ih]
        vict == findVictimFromCache(self)
        iv == IndexOf(self.cacheList_, vict.node)
    IN IF iv = 0
       THEN [self |-> [self EXCEPT !.ub = TRUE], ret |-> HistoryIt(entry.node)]
       ELSE LET victim == self.cacheList_[iv]
                a == [self EXCEPT !.cacheList_ =
                         Append(@, CopyEntry(entry, NewNode(self)))]
                back == NewNode(a)
                b == [a EXCEPT !.historyList_ = Append(@, CopyEntry(victim, back)),
                               !.history_map_ = MapEmplace(@, victim.key_, back)]
                c == [b EXCEPT !.cache_map_ = MapErase(@, victim.key_),
                               !.cacheList_ = RemoveAt(@, IndexOf(@, vict.node))]
                d == [c EXCEPT !.history_map_ = MapErase(@, entry.key_),
                               !.historyList_ = RemoveAt(@, IndexOf(@, entry.node))]
                e == [d EXCEPT !.cacheList_ = ListSort(@)]
                ret == findCacheEntry(e, k)
            IN [self |-> [e EXCEPT !.cache_map_ = MapEmplace(@, k, ret.node)],
                ret |-> ret]

\* mutant of AdmitAndDemote: the copy made at line 155 loses its oldest time
AdmitAndDemoteTrimmed(self, k, ih) ==
    LET entry == self.historyList_[ih]
        vict == findVictimFromCache(self)
        iv == IndexOf(self.cacheList_, vict.node)
    IN IF iv = 0
       THEN [self |-> [self EXCEPT !.ub = TRUE], ret |-> HistoryIt(entry.node)]
       ELSE LET victim == self.cacheList_[iv]
                a == [self EXCEPT !.cacheList_ =
                         Append(@, CopyEntry(entry, NewNode(self)))]
                front == NewNode(a)
                trimmed == [victim EXCEPT !.access_time_ = Tail(@)]
                b == [a EXCEPT !.historyList_ = <<CopyEntry(trimmed, front)>> \o @,
                               !.history_map_ = MapEmplace(@, victim.key_, front)]
                c == [b EXCEPT !.cache_map_ = MapErase(@, victim.key_),
                               !.cacheList_ = RemoveAt(@, IndexOf(@, vict.node))]
                d == [c EXCEPT !.history_map_ = MapErase(@, entry.key_),
                               !.historyList_ = RemoveAt(@, IndexOf(@, entry.node))]
                e == [d EXCEPT !.cacheList_ = ListSort(@)]
                ret == findCacheEntry(e, k)
            IN [self |-> [e EXCEPT !.cache_map_ = MapEmplace(@, k, ret.node)],
                ret |-> ret]

\* lines 148-166: cacheList_ is full, its last element goes back to historyList_
AdmitAndDemote(self, k, ih) ==
    LET entry == self.historyList_[ih]
        vict == findVictimFromCache(self)
        iv == IndexOf(self.cacheList_, vict.node)
    IN IF iv = 0
       THEN [self |-> [self EXCEPT !.ub = TRUE], ret |-> HistoryIt(entry.node)]
       ELSE LET victim == self.cacheList_[iv]
                a == [self EXCEPT !.cacheList_ =
                         Append(@, CopyEntry(entry, NewNode(self)))]
                front == NewNode(a)
                b == [a EXCEPT !.historyList_ = <<CopyEntry(victim, front)>> \o @,
                               !.history_map_ = MapEmplace(@, victim.key_, front)]
                c == [b EXCEPT !.cache_map_ = MapErase(@, victim.key_),
                               !.cacheList_ = RemoveAt(@, IndexOf(@, vict.node))]
                d == [c EXCEPT !.history_map_ = MapErase(@, entry.key_),
                               !.historyList_ = RemoveAt(@, IndexOf(@, entry.node))]
                e == [d EXCEPT !.cacheList_ = ListSort(@)]
                ret == findCacheEntry(e, k)
            IN [self |-> [e EXCEPT !.cache_map_ = MapEmplace(@, k, ret.node)],
                ret |-> ret]

\* mutant of SpliceToFront: line 172 left out
SpliceNowhere(list, i) == list

\* line 172: historyList_.splice(historyList_.begin(), historyList_, entry_it)
SpliceToFront(list, i) == <<list[i]>> \o RemoveAt(list, i)

\* lines 126-174: history_map_ holds k
HistoryHit(self, k, tick) ==
    LET entry_it == HistoryIt(self.history_map_[k])
        ih == IndexOf(self.historyList_, entry_it.node)
    IN IF ih = 0
       THEN [self |-> [self EXCEPT !.ub = TRUE], ret |-> HistoryEnd]
       ELSE LET pushed == [self EXCEPT
                              !.historyList_ = PushTime(@, ih, Now(self, tick)),
                              !.clock = Now(self, tick)]
                size == Len(pushed.historyList_[ih].access_time_)
            IN IF SizeGreaterEq(size, self.k_)
               THEN LET popped == IF SizeGreater(size, self.k_)
                                  THEN [pushed EXCEPT !.historyList_ = PopTime(@, ih)]
                                  ELSE pushed
                    IN IF SizeLess(Len(popped.cacheList_), self.capacity_)
                       THEN Admit(popped, k, ih)
                       ELSE AdmitAndDemote(popped, k, ih)
               ELSE [self |-> [pushed EXCEPT !.historyList_ = SpliceToFront(@, ih)],
                     ret |-> entry_it]

\* mutant of getFromHistoryList: history_map_[k] written for history_map_.find(k),
\* which inserts a null iterator for a key the map does not hold
getFromHistoryListIndexing(self, k, tick) ==
    IF k \notin DOMAIN self.history_map_
    THEN [self |-> [self EXCEPT !.history_map_ = MapEmplace(@, k, 0)], ret |-> HistoryEnd]
    ELSE HistoryHit(self, k, tick)

\* lines 120-177
getFromHistoryList(self, k, tick) ==
    IF k \notin DOMAIN self.history_map_
    THEN [self |-> self, ret |-> HistoryEnd]
    ELSE HistoryHit(self, k, tick)

\* ------------------------------------------------------- public methods
\* lines 182-205.  An iterator into cacheList_ (a promotion's return value)
\* compared with historyList_.end() points to another node: not equal.
get(self, k, tick) ==
    LET c == getFromCacheList(self, k, tick)
    IN IF c.self.ub THEN [self |-> c.self, found |-> FALSE, value |-> DefaultValue]
       ELSE IF c.ret # CacheEnd
       THEN [self |-> c.self, found |-> TRUE, value |-> Deref(c.self, c.ret).value_]
       ELSE LET h == getFromHistoryList(c.self, k, tick)
            IN IF h.self.ub
               THEN [self |-> h.self, found |-> FALSE, value |-> DefaultValue]
               ELSE IF h.ret # HistoryEnd
               THEN [self |-> h.self, found |-> TRUE,
                     value |-> Deref(h.self, h.ret).value_]
               ELSE [self |-> h.self, found |-> FALSE, value |-> DefaultValue]

\* lines 225-243: a key found in neither list
InsertNew(self, k, v, tick) ==
    LET t == Now(self, tick)
    IN IF SizeLess(Len(self.historyList_), self.capacity_)
       THEN LET n == NewNode(self)
            IN [self EXCEPT
                   !.historyList_ = <<[CacheEntry(n, k, v) EXCEPT !.access_time_ = <<t>>]>> \o @,
                   !.clock = t,
                   !.history_map_ = MapEmplace(@, k, n)]
       ELSE LET vict == findVictimFromHistory(self)
                iv == IndexOf(self.historyList_, vict.node)
            IN IF iv = 0 THEN [self EXCEPT !.ub = TRUE]
               ELSE LET a == [self EXCEPT
                                 !.history_map_ = MapErase(@, self.historyList_[iv].key_),
                                 !.historyList_ = RemoveAt(@, iv)]
                        n == NewNode(a)
                    IN [a EXCEPT
                           !.historyList_ =
                               <<[CacheEntry(n, k, v) EXCEPT !.access_time_ = <<t>>]>> \o @,
                           !.clock = t,
                           !.history_map_ = MapEmplace(@, k, n)]

\* mutant of put: a key a list holds gets the value and no access
putOnlyOverwrites(self, k, v, tick) ==
    IF k \in DOMAIN self.cache_map_
    THEN Assign(self, CacheIt(self.cache_map_[k]), v)
    ELSE IF k \in DOMAIN self.history_map_
    THEN Assign(self, HistoryIt(self.history_map_[k]), v)
    ELSE InsertNew(self, k, v, tick)

\* lines 207-245
put(self, k, v, tick) ==
    LET c == getFromCacheList(self, k, tick)
    IN IF c.self.ub THEN c.self
       ELSE IF c.ret # CacheEnd THEN Assign(c.self, c.ret, v)
       ELSE LET h == getFromHistoryList(c.self, k, tick)
            IN IF h.self.ub THEN h.self
               ELSE IF h.ret # HistoryEnd THEN Assign(h.self, h.ret, v)
               ELSE InsertNew(h.self, k, v, tick)

\* mutant of clear: line 251 left out, cache_map_ keeps its iterators
clearKeepingCacheMap(self) ==
    [self EXCEPT !.history_map_ = EmptyMap, !.historyList_ = <<>>, !.cacheList_ = <<>>]

\* lines 247-253
clear(self) ==
    [self EXCEPT !.history_map_ = EmptyMap, !.historyList_ = <<>>,
                 !.cache_map_ = EmptyMap, !.cacheList_ = <<>>]

\* ------------------------------------------------------------ the object
Self ==
    [capacity_ |-> capacity_, k_ |-> k_, historyList_ |-> historyList_,
     cacheList_ |-> cacheList_, history_map_ |-> history_map_,
     cache_map_ |-> cache_map_, clock |-> clock, ub |-> ub]

\* Node identities are addresses: only which node an iterator names matters.
\* After a call the nodes are renamed in list order (cacheList_ first), the
\* maps with them; an iterator left naming a node no list holds names node 0.
Renamed(self) ==
    LET nc == Len(self.cacheList_)
        name(n) == IF IndexOf(self.cacheList_, n) # 0 THEN IndexOf(self.cacheList_, n)
                   ELSE IF IndexOf(self.historyList_, n) # 0
                        THEN nc + IndexOf(self.historyList_, n)
                   ELSE 0
    IN [self EXCEPT
           !.cacheList_ = [i \in 1..nc |-> [self.cacheList_[i] EXCEPT !.node = i]],
           !.historyList_ = [i \in 1..Len(self.historyList_) |->
                                [self.historyList_[i] EXCEPT !.node = nc + i]],
           !.cache_map_ = [x \in DOMAIN self.cache_map_ |-> name(self.cache_map_[x])],
           !.history_map_ = [x \in DOMAIN self.history_map_ |-> name(self.history_map_[x])]]

Install(named) ==
    /\ capacity_' = named.capacity_
    /\ k_' = named.k_
    /\ historyList_' = named.historyList_
    /\ cacheList_' = named.cacheList_
    /\ history_map_' = named.history_map_
    /\ cache_map_' = named.cache_map_
    /\ clock' = named.clock
    /\ ub' = named.ub

KeysOf(list) == {list[i].key_ : i \in 1..Len(list)}
HistoryKeys == KeysOf(historyList_)
HotKeys == KeysOf(cacheList_)

\* the element of a list that holds key k (the list holds k)
EntryOf(list, k) == list[CHOOSE i \in 1..Len(list) : list[i].key_ = k]

\* ------------------------------------------------------ history variables
\* how many elements of a list hold key k
Copies(list, k) == Cardinality({i \in 1..Len(list) : list[i].key_ = k})

\* what a call op(k, v) that took the object from its current state to `post'
\* adds to the history of every key x.  A key's life starts when a list first
\* holds it and ends when neither list holds it.
Observed(op, k, v, post) ==
    LET before == HistoryKeys \cup HotKeys
        after == KeysOf(post.historyList_) \cup KeysOf(post.cacheList_)
        promoted(x) == Copies(post.cacheList_, x) > Copies(cacheList_, x)
        demoted(x) == /\ Copies(post.cacheList_, x) < Copies(cacheList_, x)
                      /\ Copies(post.historyList_, x) > Copies(historyList_, x)
    IN [lastPut |-> [x \in AllKeys |->
            IF x \notin after THEN DefaultValue
            ELSE IF op = "put" /\ x = k THEN v ELSE lastPut[x]],
        accessCount |-> [x \in AllKeys |->
            IF x \notin after THEN 0
            ELSE IF x = k /\ x \notin before THEN 1
            ELSE IF x = k /\ op \in {"get", "put"} /\ accessCount[x] < post.k_
                 THEN accessCount[x] + 1
            ELSE accessCount[x]],
        promotedInLife |-> [x \in AllKeys |->
            IF x \notin after THEN FALSE
            ELSE promotedInLife[x] \/ promoted(x)],
        promotedInStay |-> [x \in AllKeys |->
            IF x \notin after \/ demoted(x) THEN 0
            ELSE IF promoted(x) /\ promotedInStay[x] < PromotionCap
                 THEN promotedInStay[x] + 1
            ELSE promotedInStay[x]],
        hotAtClear |->
            IF op = "clear" THEN HotKeys
            ELSE IF result.op = "clear" THEN hotAtClear
            ELSE {}]

Observe(op, k, v, post) ==
    \E h \in {Observed(op, k, v, post)} :
        /\ lastPut' = h.lastPut
        /\ accessCount' = h.accessCount
        /\ promotedInLife' = h.promotedInLife
        /\ promotedInStay' = h.promotedInStay
        /\ hotAtClear' = h.hotAtClear

\* ---------------------------------------------------------------- actions
\* whether the call that leads to `post' takes a key out of the cache
Evicts(post) ==
    (HistoryKeys \cup HotKeys) \ (KeysOf(post.historyList_) \cup KeysOf(post.cacheList_)) # {}

\* whether the call that leads to `post' moves a key from Hot to History
Demotes(post) == (HotKeys \ KeysOf(post.cacheList_)) \cap KeysOf(post.historyList_) # {}

\* where key k is before a call; "demoted" is a History key that was in Hot
Region(k) ==
    IF k \in HotKeys THEN "hot"
    ELSE IF k \in HistoryKeys
         THEN (IF promotedInLife[k] THEN "demoted" ELSE "history")
    ELSE "absent"

Constructed ==
    /\ historyList_ = <<>>
    /\ cacheList_ = <<>>
    /\ history_map_ = EmptyMap
    /\ cache_map_ = EmptyMap
    /\ clock = 0
    /\ ub = FALSE
    /\ result = [op |-> "new", key |-> 0, before |-> "absent", value |-> DefaultValue,
                 found |-> FALSE, evicted |-> FALSE, demoted |-> FALSE]
    /\ lastPut = [x \in AllKeys |-> DefaultValue]
    /\ accessCount = [x \in AllKeys |-> 0]
    /\ promotedInLife = [x \in AllKeys |-> FALSE]
    /\ promotedInStay = [x \in AllKeys |-> 0]
    /\ hotAtClear = {}
    /\ pc = <<0, 0>>

\* LRUK_Cache(int c, int k), line 180, here with c >= 1 and k >= 1
Init ==
    /\ capacity_ \in 1..MaxCap
    /\ k_ \in 1..MaxK
    /\ Constructed

\* get(k) while the clock has not passed `horizon'
GetUpTo(k, horizon) ==
    /\ ~ub
    /\ \E tick \in Ticks :
        /\ clock + tick <= horizon
        /\ \E r \in {get(Self, k, tick)} :
            /\ \E named \in {Renamed(r.self)} : Install(named)
            /\ result' = [op |-> "get", key |-> k, before |-> Region(k),
                          value |-> r.value, found |-> r.found,
                          evicted |-> Evicts(r.self), demoted |-> Demotes(r.self)]
            /\ Observe("get", k, DefaultValue, r.self)
    /\ UNCHANGED pc

\* put(k, v) while the clock has not passed `horizon'
PutUpTo(k, v, horizon) ==
    /\ ~ub
    /\ \E tick \in Ticks :
        /\ clock + tick <= horizon
        /\ \E self \in {put(Self, k, v, tick)} :
            /\ \E named \in {Renamed(self)} : Install(named)
            /\ result' = [op |-> "put", key |-> k, before |-> Region(k),
                          value |-> v, found |-> FALSE,
                          evicted |-> Evicts(self), demoted |-> Demotes(self)]
            /\ Observe("put", k, v, self)
    /\ UNCHANGED pc

Get(k) == GetUpTo(k, MaxTime)

Put(k, v) == PutUpTo(k, v, MaxTime)

Clear ==
    /\ ~ub
    /\ \E self \in {clear(Self)} :
        /\ \E named \in {Renamed(self)} : Install(named)
        /\ result' = [op |-> "clear", key |-> 0, before |-> "absent",
                      value |-> DefaultValue, found |-> FALSE,
                      evicted |-> FALSE, demoted |-> FALSE]
        /\ Observe("clear", 0, DefaultValue, self)
    /\ UNCHANGED pc

Next ==
    \/ \E k \in Keys : Get(k)
    \/ \E k \in Keys, v \in Values : Put(k, v)
    \/ Clear

Spec == Init /\ [][Next]_vars

\* the same calls with more keys, one value and a shorter clock
InitWide == Init

WideGet(k) == GetUpTo(k, WideMaxTime)

WidePut(k) == PutUpTo(k, 1, WideMaxTime)

NextWide ==
    \/ \E k \in WideKeys : WideGet(k)
    \/ \E k \in WideKeys : WidePut(k)
    \/ Clear

SpecWide == InitWide /\ [][NextWide]_vars

\* the same calls on the cache one larger than the largest of Spec, with
\* K one larger: a History of three and two accesses below K
DeepKeys == 1..(MaxCap + 2)

InitDeep ==
    /\ capacity_ = MaxCap + 1
    /\ k_ = MaxK + 1
    /\ Constructed

DeepGet(k) == GetUpTo(k, WideMaxTime)

DeepPut(k) == PutUpTo(k, 1, WideMaxTime)

NextDeep ==
    \/ \E k \in DeepKeys : DeepGet(k)
    \/ \E k \in DeepKeys : DeepPut(k)
    \/ Clear

SpecDeep == InitDeep /\ [][NextDeep]_vars

\* ------------------------------------------------- a misconfigured cache
\* LRUK_Cache(int c, int k), line 180, with c <= 0 or k <= 0: the constructor
\* stores what it is given
InitUnchecked ==
    /\ capacity_ \in (0 - MaxDeficit)..MaxCap
    /\ k_ \in (0 - MaxDeficit)..MaxK
    /\ capacity_ <= 0 \/ k_ <= 0
    /\ Constructed

\* no window has outgrown MaxWindow (with k_ < 0 a window grows at every access)
WindowsWithin(n) ==
    /\ \A i \in 1..Len(historyList_) : Len(historyList_[i].access_time_) <= n
    /\ \A i \in 1..Len(cacheList_) : Len(cacheList_[i].access_time_) <= n

\* the calls of SpecWide's clock and value, on Keys
UncheckedGet(k) == WindowsWithin(MaxWindow) /\ GetUpTo(k, WideMaxTime)

UncheckedPut(k) == WindowsWithin(MaxWindow) /\ PutUpTo(k, 1, WideMaxTime)

NextUnchecked ==
    \/ \E k \in Keys : UncheckedGet(k)
    \/ \E k \in Keys : UncheckedPut(k)
    \/ Clear

SpecUnchecked == InitUnchecked /\ [][NextUnchecked]_vars

\* ------------------------------------------------------------------- main
\* line 306: LRUK_Cache<int,string> cache(3,2)
MainCapacity == 3
MainK == 2

Call(op, k, v) == [op |-> op, key |-> k, value |-> v]

\* lines 310-340, the calls main makes on the cache (print changes nothing)
MainScript ==
    << Call("put", 1, "A"), Call("put", 2, "B"), Call("put", 3, "C"),
       Call("put", 4, "D"),
       Call("get", 2, ""),
       Call("put", 3, "C1"),
       Call("get", 4, ""),
       Call("put", 5, "E"), Call("put", 6, "F"), Call("put", 7, "G"),
       Call("put", 5, "E1"),
       Call("put", 6, "F1"),
       Call("get", 7, ""),
       Call("put", 5, "E2"),
       Call("clear", 0, "") >>

\* the calls of main made when put(5, "E1") has returned (line 328)
AfterE1 == CHOOSE n \in 1..Len(MainScript) : MainScript[n] = Call("put", 5, "E1")

\* the calls of main made when put(5, "E2") has returned (line 335)
AfterE2 == CHOOSE n \in 1..Len(MainScript) : MainScript[n] = Call("put", 5, "E2")

\* the two lookups made in place of main's line 330 onwards, on the cache as
\* put(5, "E1") left it
FinalCheck == << Call("get", 7, ""), Call("get", 4, "") >>

\* which list holds key k before a call
Holder(k) ==
    IF k \in HotKeys THEN "hot" ELSE IF k \in HistoryKeys THEN "history" ELSE "absent"

\* one call on the cache, its one reading of the clock advancing it by tick
Run(call, tick) ==
    IF call.op = "get" THEN get(Self, call.key, tick)
    ELSE IF call.op = "put"
    THEN [self |-> put(Self, call.key, call.value, tick), found |-> FALSE,
          value |-> call.value]
    ELSE [self |-> clear(Self), found |-> FALSE, value |-> call.value]

Made(call) ==
    /\ ~ub
    /\ \E tick \in Ticks :
        \E r \in {Run(call, tick)} :
            /\ \E named \in {Renamed(r.self)} : Install(named)
            /\ result' = [op |-> call.op, key |-> call.key, before |-> Holder(call.key),
                          value |-> r.value, found |-> r.found,
                          evicted |-> Evicts(r.self), demoted |-> Demotes(r.self)]
    /\ UNCHANGED historyVars

InitMain ==
    /\ capacity_ = MainCapacity
    /\ k_ = MainK
    /\ Constructed

\* the next call of main
MainCall ==
    /\ pc[2] = 0
    /\ pc[1] < Len(MainScript)
    /\ Made(MainScript[pc[1] + 1])
    /\ pc' = <<pc[1] + 1, 0>>

\* the next lookup of the final check
FinalCheckCall ==
    /\ pc[1] = AfterE1
    /\ pc[2] < Len(FinalCheck)
    /\ Made(FinalCheck[pc[2] + 1])
    /\ pc' = <<pc[1], pc[2] + 1>>

NextMain ==
    \/ MainCall
    \/ FinalCheckCall

SpecMain == InitMain /\ [][NextMain]_vars

\* ------------------------------------------------------------ well-formedness
TypeOK ==
    /\ capacity_ \in 1..MaxCap
    /\ k_ \in 1..MaxK
    /\ clock \in 0..MaxTime
    /\ ub \in BOOLEAN
    /\ \A i \in 1..Len(historyList_) :
        /\ historyList_[i].key_ \in AllKeys
        /\ historyList_[i].value_ \in Values
    /\ \A i \in 1..Len(cacheList_) :
        /\ cacheList_[i].key_ \in AllKeys
        /\ cacheList_[i].value_ \in Values

\* no call dereferences an end() or dangling iterator
NoUndefinedBehaviour == ~ub

\* every iterator a map holds names the element of its list with that key
IteratorsValid ==
    /\ \A k \in DOMAIN cache_map_ :
        /\ IndexOf(cacheList_, cache_map_[k]) # 0
        /\ cacheList_[IndexOf(cacheList_, cache_map_[k])].key_ = k
    /\ \A k \in DOMAIN history_map_ :
        /\ IndexOf(historyList_, history_map_[k]) # 0
        /\ historyList_[IndexOf(historyList_, history_map_[k])].key_ = k

\* ------------------------------------------------------ reading the lists
\* a list without its node names: key, value and window of each element
Content(list) ==
    [i \in 1..Len(list) |-> <<list[i].key_, list[i].value_, list[i].access_time_>>]

KeyOrder(list) == [i \in 1..Len(list) |-> list[i].key_]

Except(list, k) == SelectSeq(list, LAMBDA e : e.key_ # k)

Window(list, k) == EntryOf(list, k).access_time_

Last(s) == s[Len(s)]

\* front to back, the oldest retained time never increases
SortedByOldest(list) ==
    \A i, j \in 1..Len(list) :
        i < j => Head(list[i].access_time_) >= Head(list[j].access_time_)

\* the window after one more access at time t: the last K of the old ones and t
Slide(window, t, k) ==
    LET all == Append(window, t)
    IN IF Len(all) > k THEN SubSeq(all, Len(all) - k + 1, Len(all)) ELSE all

\* ====================================================================== C1
\* C1: every element either list holds stores the value of the latest put of
\* its key since the key was last absent (so promotion and demotion, which
\* copy elements between the lists, keep values), and a get of a key that a
\* list held returns found = true with that value.
C1_GetReturnsLatestPut ==
    /\ \A i \in 1..Len(historyList_) :
        historyList_[i].value_ = lastPut[historyList_[i].key_]
    /\ \A i \in 1..Len(cacheList_) :
        cacheList_[i].value_ = lastPut[cacheList_[i].key_]
    /\ (result.op = "get" /\ result.before # "absent") =>
        (result.found /\ result.value = lastPut[result.key])

\* a get has just re-promoted a demoted key and returned its value, next to
\* another key that is in History by demotion
C1_Witness ==
    /\ result.op = "get"
    /\ result.before = "demoted"
    /\ result.found
    /\ result.key \in HotKeys
    /\ result.value = lastPut[result.key]
    /\ \E x \in HistoryKeys : promotedInLife[x]

\* ====================================================================== C2
\* C2: a get of a key neither list holds returns (VALUE(), found = false) and
\* changes neither list, neither map, no value, no window, and reads no clock.
C2_MissChangesNothing ==
    [][(result'.op = "get" /\ result'.before = "absent") =>
        /\ ~result'.found
        /\ result'.value = DefaultValue
        /\ UNCHANGED <<capacity_, k_, historyList_, cacheList_, history_map_,
                       cache_map_, clock, ub>>
        /\ result'.key \notin HistoryKeys' \cup HotKeys']_vars

\* a missing get on a cache whose two lists both hold elements
C2_Witness ==
    /\ result.op = "get"
    /\ result.before = "absent"
    /\ ~result.found
    /\ historyList_ # <<>>
    /\ cacheList_ # <<>>

\* ====================================================================== C3
\* C3: between calls neither list holds more than capacity_ elements.
C3_SizesWithinCapacity ==
    /\ Len(historyList_) <= capacity_
    /\ Len(cacheList_) <= capacity_

\* a promotion has just demoted a Hot element into a History that was full:
\* both lists are full, the front of History is the demoted element
C3_Witness ==
    /\ result.before \in {"history", "demoted"}
    /\ result.key \in HotKeys
    /\ result.demoted
    /\ Len(cacheList_) = capacity_
    /\ Len(historyList_) = capacity_
    /\ promotedInLife[historyList_[1].key_]

\* ====================================================================== C4
\* C4: no key is held twice: not by both lists, not twice by one list; and
\* each map holds exactly the keys of its list.
C4_KeysUnique ==
    /\ HistoryKeys \cap HotKeys = {}
    /\ Cardinality(HistoryKeys) = Len(historyList_)
    /\ Cardinality(HotKeys) = Len(cacheList_)
    /\ DOMAIN history_map_ = HistoryKeys
    /\ DOMAIN cache_map_ = HotKeys

\* a promotion into a Hot list with room has just moved a key between the lists
C4_Witness ==
    /\ result.before = "history"
    /\ result.key \in HotKeys
    /\ historyList_ # <<>>
    /\ Len(cacheList_) >= 2

\* ====================================================================== C5
\* C5 as claimed: a put on a Hot key leaves the key's window, the order of
\* Hot and all of History as they were.
C5_PutOnHotOnlyOverwrites ==
    [][(result'.op = "put" /\ result'.before = "hot") =>
        /\ Window(cacheList_', result'.key) = Window(cacheList_, result'.key)
        /\ KeyOrder(cacheList_') = KeyOrder(cacheList_)
        /\ Content(historyList_') = Content(historyList_)]_vars

\* C5 as amended: a put on a Hot key stores the value and is an access like a
\* get: the key's window loses its oldest time and gains the time of the put
\* (it keeps K times), Hot is sorted again by oldest retained time, the other
\* Hot elements keep value, window and relative order, History is untouched.
C5_PutOnHotIsAnAccess ==
    [][(result'.op = "put" /\ result'.before = "hot") =>
        /\ HotKeys' = HotKeys
        /\ Len(cacheList_') = Len(cacheList_)
        /\ EntryOf(cacheList_', result'.key).value_ = result'.value
        /\ Window(cacheList_', result'.key) =
               Slide(Window(cacheList_, result'.key), clock', k_)
        /\ Len(Window(cacheList_', result'.key)) = k_
        /\ Content(Except(cacheList_', result'.key)) =
               Content(Except(cacheList_, result'.key))
        /\ SortedByOldest(cacheList_')
        /\ Content(historyList_') = Content(historyList_)
        /\ history_map_' = history_map_]_vars

\* a put on a Hot key has left it in front of a Hot element with an older
\* oldest retained time
C5_Witness ==
    /\ result.op = "put"
    /\ result.before = "hot"
    /\ Len(cacheList_) >= 2
    /\ cacheList_[1].key_ = result.key
    /\ cacheList_[1].value_ = result.value
    /\ Head(cacheList_[1].access_time_) > Head(cacheList_[2].access_time_)

C7_PromotedWhenCountReachesK ==
    \A k \in AllKeys :
        /\ k \in HotKeys => accessCount[k] >= k_
        /\ (k \in HistoryKeys /\ accessCount[k] >= k_) => promotedInLife[k]

\* ====================================================================== C8
\* C8 as claimed: no call promotes a key that was already promoted since its
\* creation.
C8_PromotedOncePerLife ==
    [][\A k \in AllKeys :
        Copies(cacheList_', k) > Copies(cacheList_, k) => ~promotedInLife[k]]_vars

\* C8 as amended: a key is promoted at most once between its creation or its
\* latest demotion and its next demotion, eviction or clear, and it is in Hot
\* exactly while that one promotion stands; a demoted key can be promoted
\* again.
C8_PromotedOncePerStay ==
    \A k \in AllKeys :
        /\ promotedInStay[k] <= 1
        /\ k \in HotKeys <=> promotedInStay[k] = 1

\* a call has promoted a key that was in History by demotion
C8_Witness ==
    /\ result.before = "demoted"
    /\ result.key \in HotKeys
    /\ promotedInStay[result.key] = 1

\* ====================================================================== C9
\* the element a put of a new key removes from a full History
TailOf(list) == list[Len(list)]

AllButTail(list) == SubSeq(list, 1, Len(list) - 1)

\* C9 as claimed: a put of a new key into a full History removes exactly the
\* tail of History and changes nothing in Hot, and no other History member's
\* latest recorded access is older than the tail's (equal times read in the
\* claim's favour).
C9_EvictsLeastRecentlyAccessed ==
    [][(result'.op = "put" /\ result'.before = "absent"
            /\ Len(historyList_) = capacity_) =>
        /\ Content(cacheList_') = Content(cacheList_)
        /\ Content(historyList_') =
               <<<<result'.key, result'.value, <<clock'>>>>>>
                   \o Content(AllButTail(historyList_))
        /\ \A i \in 1..(Len(historyList_) - 1) :
               Last(TailOf(historyList_).access_time_)
                   <= Last(historyList_[i].access_time_)]_vars

\* C9 as amended: a put of a new key into a full History removes exactly the
\* tail of History and changes nothing in Hot; the tail is the member placed
\* at History's front longest ago (by its creation, its latest access below K
\* or its demotion).  No member that was never in Hot has a latest recorded
\* access older than the tail's; a member demoted from Hot can have one.
C9_EvictsHistoryTail ==
    [][(result'.op = "put" /\ result'.before = "absent"
            /\ Len(historyList_) = capacity_) =>
        /\ Content(cacheList_') = Content(cacheList_)
        /\ cache_map_' = cache_map_
        /\ Content(historyList_') =
               <<<<result'.key, result'.value, <<clock'>>>>>>
                   \o Content(AllButTail(historyList_))
        /\ result'.evicted
        /\ \A i \in 1..(Len(historyList_) - 1) :
               ~promotedInLife[historyList_[i].key_] =>
                   Last(TailOf(historyList_).access_time_)
                       <= Last(historyList_[i].access_time_)]_vars

\* a put of a new key has evicted the tail of a full History of two or more
\* and a member demoted from Hot stays behind it
C9_Witness ==
    /\ result.op = "put"
    /\ result.before = "absent"
    /\ result.evicted
    /\ Len(historyList_) = capacity_
    /\ \E i \in 2..Len(historyList_) : promotedInLife[historyList_[i].key_]

\* ===================================================================== C10
\* C10: when an access promotes a History key into a full Hot, exactly one
\* Hot member leaves Hot: one whose oldest retained time no other Hot member's
\* undercuts.  It becomes the front of History with value and window kept,
\* the rest of History keeps its order, the promoted key joins Hot, the other
\* Hot members stay as they were, and Hot still holds capacity_ elements.
C10_DemotesStalest ==
    [][(result'.op \in {"get", "put"} /\ result'.before \in {"history", "demoted"}
            /\ result'.key \in HotKeys' /\ Len(cacheList_) = capacity_) =>
        \E v \in 1..Len(cacheList_) :
            /\ \A i \in 1..Len(cacheList_) :
                   Head(cacheList_[v].access_time_) <= Head(cacheList_[i].access_time_)
            /\ HotKeys' = (HotKeys \ {cacheList_[v].key_}) \cup {result'.key}
            /\ Len(cacheList_') = capacity_
            /\ Content(Except(cacheList_', result'.key)) =
                   Content(Except(cacheList_, cacheList_[v].key_))
            /\ Content(historyList_')[1] = Content(cacheList_)[v]
            /\ KeyOrder(historyList_') =
                   <<cacheList_[v].key_>> \o KeyOrder(Except(historyList_, result'.key))
            /\ result'.demoted]_vars

\* a promotion into a full Hot of two has just demoted the member whose oldest
\* retained time is older than that of the member that stays
C10_Witness ==
    /\ result.before \in {"history", "demoted"}
    /\ result.key \in HotKeys
    /\ result.demoted
    /\ Len(cacheList_) = capacity_
    /\ capacity_ >= 2
    /\ \E i \in 1..Len(cacheList_) :
        /\ cacheList_[i].key_ # result.key
        /\ Head(historyList_[1].access_time_) < Head(cacheList_[i].access_time_)

\* ===================================================================== C11
\* keys and values of a list, front to back
Listing(list) == [i \in 1..Len(list) |-> <<list[i].key_, list[i].value_>>]

\* every call made so far read a later time_point than the call before it
\* (each call of main and of the final check reads the clock once)
ClockStrict == clock = pc[1] + pc[2]

\* the History states the scenario lists
MainHistoryAsListed ==
    /\ pc = <<3, 0>> => KeyOrder(historyList_) = <<3, 2, 1>>
    /\ pc = <<4, 0>> => /\ KeyOrder(historyList_) = <<4, 3, 2>>
                        /\ 1 \notin HistoryKeys \cup HotKeys
    /\ pc = <<5, 0>> => KeyOrder(historyList_) = <<4, 3>>
    /\ pc = <<6, 0>> => KeyOrder(historyList_) = <<4>>
    /\ pc = <<7, 0>> => historyList_ = <<>>
    /\ pc = <<10, 0>> => KeyOrder(historyList_) = <<7, 6, 5>>
    /\ pc = <<AfterE1, 0>> => KeyOrder(historyList_) = <<2, 7, 6>>
    /\ pc = <<AfterE2, 0>> =>
           Listing(historyList_) = << <<4, "D">>, <<3, "C1">>, <<2, "B">> >>

\* the members of Hot in the states the scenario lists
MainHotMembersAsListed ==
    /\ pc = <<5, 0>> => HotKeys = {2}
    /\ pc = <<6, 0>> => HotKeys = {3, 2}
    /\ pc = <<7, 0>> => HotKeys = {4, 3, 2}
    /\ pc = <<10, 0>> => HotKeys = {4, 3, 2}
    /\ pc = <<AfterE1, 0>> => HotKeys = {5, 4, 3}
    /\ pc = <<AfterE2, 0>> =>
           SeqRange(Listing(cacheList_)) = {<<5, "E2">>, <<7, "G">>, <<6, "F1">>}

\* the order of Hot in the states the scenario lists
MainHotOrderAsListed ==
    /\ pc = <<6, 0>> => KeyOrder(cacheList_) = <<3, 2>>
    /\ pc = <<7, 0>> => KeyOrder(cacheList_) = <<4, 3, 2>>
    /\ pc = <<AfterE1, 0>> => KeyOrder(cacheList_) = <<5, 4, 3>>
    /\ pc = <<AfterE2, 0>> => KeyOrder(cacheList_) = <<5, 7, 6>>

\* what the lookups return: main's asserts (lines 317, 322, 333) and the
\* final check
MainLookupsAsListed ==
    /\ pc = <<5, 0>> => (result.found /\ result.value = "B")
    /\ pc = <<7, 0>> => (result.found /\ result.value = "D")
    /\ pc = <<13, 0>> => (result.found /\ result.value = "G")
    /\ pc = <<AfterE1, 1>> => (result.found /\ result.value = "G")
    /\ pc = <<AfterE1, 2>> => (result.found /\ result.value = "D")

Empty ==
    /\ historyList_ = <<>>
    /\ cacheList_ = <<>>
    /\ history_map_ = EmptyMap
    /\ cache_map_ = EmptyMap

\* C12: clear leaves both lists and both maps empty (no element is moved to
\* the other list) and reads no clock; a get that follows it finds nothing
\* and leaves the cache empty; a put that follows it, also of a key Hot held
\* before the clear, makes the key the one element of History, with the value
\* put and a window of the one time of the put, and leaves Hot empty.
C12_ClearResets ==
    [][/\ result'.op = "clear" => (Empty' /\ clock' = clock /\ ~ub')
       /\ (result.op = "clear" /\ result'.op = "get") =>
              (~result'.found /\ result'.value = DefaultValue /\ Empty')
       /\ (result.op = "clear" /\ result'.op = "put") =>
              /\ cacheList_' = <<>>
              /\ cache_map_' = EmptyMap
              /\ Content(historyList_') = << <<result'.key, result'.value, <<clock'>>>> >>
              /\ DOMAIN history_map_' = {result'.key}
              /\ ~ub']_vars

\* with K = 2, a put has created again a key that Hot held when clear was
\* called, next to another Hot key: it is alone in History with one time
C12_Witness ==
    /\ result.op = "put"
    /\ result.key \in hotAtClear
    /\ Cardinality(hotAtClear) >= 2
    /\ k_ = 2
    /\ HistoryKeys = {result.key}
    /\ Len(Window(historyList_, result.key)) = 1
    /\ cacheList_ = <<>>

\* ===================================================================== C13
\* C13 as claimed: a cache with capacity_ <= 0 or k_ <= 0 is never built, so
\* none has run a call and none has run into undefined behaviour.
C13_MisconfigurationRejected ==
    (capacity_ <= 0 \/ k_ <= 0) => (result.op = "new" /\ ~ub)

C15_HotWindowHoldsK ==
    [][/\ \A i \in 1..Len(cacheList_') : Len(cacheList_'[i].access_time_) = k_
       /\ \A i \in 1..Len(historyList_') : Len(historyList_'[i].access_time_) <= k_
       /\ (result'.op \in {"get", "put"} /\ result'.before = "hot") =>
              /\ result'.key \in HotKeys'
              /\ Window(cacheList_', result'.key) =
                     Append(Tail(Window(cacheList_, result'.key)), clock')]_vars

\* with K = 2, a get on a Hot key has left it with the time of its access
\* before this one and the time of this one, a later one
C15_Witness ==
    /\ result.op = "get"
    /\ result.before = "hot"
    /\ k_ = 2
    /\ Len(cacheList_) = 2
    /\ Window(cacheList_, result.key)[2] = clock
    /\ Window(cacheList_, result.key)[1] < clock

\* ===================================================================== C16
\* position of key k in a list that holds it
PlaceOf(list, k) == CHOOSE i \in 1..Len(list) : list[i].key_ = k

\* C16: after every call Hot is in non-increasing order of oldest retained
\* time, front to back, so no Hot member's oldest retained time is older than
\* the last one's; a member admitted by a promotion stands behind exactly the
\* members whose oldest retained time is not older than its own.
C16_HotSortedByOldest ==
    [][/\ SortedByOldest(cacheList_')
       /\ \A i \in 1..Len(cacheList_') :
              Head(Last(cacheList_').access_time_) <= Head(cacheList_'[i].access_time_)
       /\ (result'.before \in {"history", "demoted"} /\ result'.key \in HotKeys') =>
              \A i \in 1..Len(cacheList_') :
                  i # PlaceOf(cacheList_', result'.key) =>
                      (i < PlaceOf(cacheList_', result'.key)
                          <=> Head(cacheList_'[i].access_time_)
                                  >= Head(Window(cacheList_', result'.key)))]_vars

\* a promotion has admitted a key behind a Hot member whose oldest retained
\* time is newer than its own
C16_Witness ==
    /\ result.before \in {"history", "demoted"}
    /\ result.key \in HotKeys
    /\ cacheList_[1].key_ # result.key
    /\ Head(cacheList_[1].access_time_) > Head(Window(cacheList_, result.key))

\* ===================================================================== C17
\* C17: a key that a get or put takes out of Hot is, after the call, the front
\* of History with the value and the whole window it had in Hot, K times, and
\* history_map_ holds it.
C17_DemotionKeepsEntry ==
    [][result'.op \in {"get", "put"} =>
        \A x \in HotKeys \ HotKeys' :
            /\ historyList_' # <<>>
            /\ Content(historyList_')[1] =
                   <<x, EntryOf(cacheList_, x).value_, Window(cacheList_, x)>>
            /\ Len(historyList_'[1].access_time_) = k_
            /\ x \in DOMAIN history_map_'
            /\ history_map_'[x] = historyList_'[1].node]_vars

\* with K = 2, a call has demoted a member whose two times differ to the
\* front of a History of two, with the value put for it
C17_Witness ==
    /\ result.demoted
    /\ k_ = 2
    /\ Len(historyList_) = 2
    /\ promotedInLife[historyList_[1].key_]
    /\ historyList_[1].value_ = lastPut[historyList_[1].key_]
    /\ historyList_[1].access_time_[1] < historyList_[1].access_time_[2]

\* ===================================================================== C18
\* C18: a get on a History key whose window, with the time of the get, holds
\* fewer than K times returns its value, adds that time to its window, makes
\* it the front of History, keeps the other History members in their order
\* with their values and windows, and leaves Hot and cache_map_ as they were.
C18_GetBelowKMovesToFront ==
    [][(/\ result'.op = "get"
        /\ result'.before \in {"history", "demoted"}
        /\ Len(Window(historyList_, result'.key)) + 1 < k_) =>
        /\ result'.found
        /\ result'.value = EntryOf(historyList_, result'.key).value_
        /\ Content(historyList_') =
               << <<result'.key, result'.value,
                    Append(Window(historyList_, result'.key), clock')>> >>
                   \o Content(Except(historyList_, result'.key))
        /\ DOMAIN history_map_' = DOMAIN history_map_
        /\ Content(cacheList_') = Content(cacheList_)
        /\ cache_map_' = cache_map_]_vars

\* with K = 3, a get has moved a key with now two times to the front of a
\* History of three, before two members created after it
C18_Witness ==
    /\ result.op = "get"
    /\ result.before = "history"
    /\ k_ > 2
    /\ Len(historyList_) = 3
    /\ historyList_[1].key_ = result.key
    /\ Len(historyList_[1].access_time_) = 2
    /\ Len(historyList_[2].access_time_) = 1
    /\ Len(historyList_[3].access_time_) = 1
    /\ Head(historyList_[1].access_time_) < Head(historyList_[3].access_time_)

\* ===================================================================== C19
\* the keys either list holds
Held == HistoryKeys \cup HotKeys

\* C19: a get or put leaves every Hot key in Hot or in History; the only key
\* a get or put makes absent is the tail of a full History, by a put of a key
\* neither list held; and only clear makes Hot shorter.
C19_OnlyTailOrClearRemoves ==
    [][/\ result'.op \in {"get", "put"} =>
              /\ HotKeys \subseteq Held'
              /\ \A x \in Held \ Held' :
                     /\ result'.op = "put"
                     /\ result'.before = "absent"
                     /\ Len(historyList_) = capacity_
                     /\ x = TailOf(historyList_).key_
       /\ result'.op # "clear" => Len(cacheList_') >= Len(cacheList_)]_vars

\* a promotion into a full Hot of two has just demoted a member into a
\* History that was full: both lists hold two, no key was lost
C19_Witness ==
    /\ result.demoted
    /\ ~result.evicted
    /\ capacity_ = 2
    /\ Len(cacheList_) = 2
    /\ Len(historyList_) = 2
    /\ historyList_[1].key_ \notin HotKeys

\* ===================================================================== C20
\* C20: a get or put on a key that is in History by demotion promotes it: the
\* key is in Hot and not in History after the call, its window is the one it
\* had (in Hot and since) less the oldest time plus the time of the call, and
\* a get finds it.  The member the promotion demotes is another key.
C20_DemotedIsPromotedAgain ==
    [][(result'.op \in {"get", "put"} /\ result'.before = "demoted") =>
        /\ result'.key \in HotKeys'
        /\ result'.key \notin HistoryKeys'
        /\ Len(Window(historyList_, result'.key)) = k_
        /\ Window(cacheList_', result'.key) =
               Append(Tail(Window(historyList_, result'.key)), clock')
        /\ result'.op = "get" => result'.found
        /\ \A x \in HotKeys \ HotKeys' : x # result'.key]_vars

\* a call has promoted again a demoted key whose oldest retained time is
\* older than that of both members Hot held: it is the last of Hot, and the
\* member demoted in its place has a newer oldest retained time
C20_Witness ==
    /\ result.before = "demoted"
    /\ result.demoted
    /\ Len(cacheList_) = 2
    /\ cacheList_[2].key_ = result.key
    /\ Head(cacheList_[2].access_time_) < Head(cacheList_[1].access_time_)
    /\ historyList_ # <<>>
    /\ historyList_[1].key_ # result.key
    /\ Head(cacheList_[2].access_time_) < Head(historyList_[1].access_time_)

====
